---- MODULE Spec2Model ----
(***************************************************************************)
(* A model of gitix's status reconciliation, staging and remote sync      *)
(* (src/src/git.rs) and of the application state that drives them         *)
(* (src/src/app.rs).                                                       *)
(*                                                                         *)
(* The repository is three snapshots per path (HEAD tree, index, working  *)
(* tree), a commit graph and the refs.  Every public function of git.rs   *)
(* is one action; the library calls it makes (gix, git2, the git command) *)
(* are operators that compute what the library returns on the modelled    *)
(* repository.                                                             *)
(***************************************************************************)
EXTENDS Integers, Sequences, FiniteSets, TLC

VARIABLES
    commits,      \* object database: commit id -> [parents, tree]
    localTip,     \* refs/heads/<branch>, which HEAD points at (0: unborn)
    trackTip,     \* refs/remotes/origin/<branch> (0: no such ref)
    upstreamTip,  \* the branch on the remote itself (0: none)
    hasOrigin,    \* a remote named "origin" is configured
    detached,     \* the commit HEAD points at directly (0: HEAD is on the branch)
    rebasing,     \* a rebase is in progress (.git/rebase-merge exists)
    index,        \* the persisted index: path -> entry
    worktree,     \* the working tree: path -> entry
    last,         \* the call made last and what it returned
    app,          \* the AppState fields of the update tab
    wire          \* the transport attempts made so far, oldest first

vars ==
    <<commits, localTip, trackTip, upstreamTip, hasOrigin, detached, rebasing,
      index, worktree, last, app, wire>>

\* the repository, and the traffic with its remote
repoVars ==
    <<commits, localTip, trackTip, upstreamTip, hasOrigin, detached, rebasing,
      index, worktree, wire>>

\* the repository apart from the index
notIndexVars ==
    <<commits, localTip, trackTip, upstreamTip, hasOrigin, detached, rebasing, worktree,
      wire>>

-----------------------------------------------------------------------------
(* Bounds *)

\* number of distinct blob contents
NumBlobs == 2

-----------------------------------------------------------------------------
(* Paths, entries and trees *)

\* Paths are sequences of characters, so that the fallback's byte slicing
\* (line[3..]) is modelled as it is computed.
PathData == <<"D", "a", "t", "a">>
PathA == <<"a">>

\* in index order (byte-wise sorted)
PathList == <<PathData, PathA>>

Paths == {PathList[i] : i \in 1..Len(PathList)}

Blobs == 1..NumBlobs

\* git file modes: a regular file (100644) and a symbolic link (120000)
Modes == {"file", "link"}

NoEntry == [id |-> 0, mode |-> "none"]

Entries == [id : Blobs, mode : Modes]

Slots == Entries \cup {NoEntry}

Trees == [Paths -> Slots]

EmptyTree == [p \in Paths |-> NoEntry]

NoPath == <<>>

-----------------------------------------------------------------------------
(* The object database and HEAD *)

Unborn(tip) == tip = 0

\* the tree of the commit HEAD points at (no entries on an unborn branch)
HeadTreeOf(cs, tip) == IF Unborn(tip) THEN EmptyTree ELSE cs[tip].tree

-----------------------------------------------------------------------------
(* GitFileStatus and the primary (gix) status backend *)

StatusTypes == {"Modified", "Added", "Deleted", "Untracked", "Renamed", "TypeChange"}

\* file_size is derived from the path's metadata alone and is left out;
\* `from` is the field of FileStatusType::Renamed (empty for the other kinds).
GitFileStatus(path, status, staged) ==
    [path |-> path, status |-> status, from |-> <<>>, staged |-> staged]

\* The item gix's index-worktree iterator yields for a path: a tracked entry
\* whose working-tree file differs from the index entry (changed, type
\* changed or removed) is a Modification, a file with no index entry is
\* DirectoryContents.  Rewrite is produced only with rewrite tracking, which
\* repo.status() leaves off.
IndexWorktreeItem(idx, wt, p) ==
    IF idx[p] # NoEntry /\ wt[p] # idx[p] THEN "Modification"
    ELSE IF idx[p] = NoEntry /\ wt[p] # NoEntry THEN "DirectoryContents"
    ELSE "None"

StatusTypeOfItem(item) ==
    CASE item = "Modification" -> "Modified"
      [] item = "DirectoryContents" -> "Untracked"
      [] item = "Rewrite" -> "Modified"

get_unstaged_changes_gix(idx, wt) ==
    LET changed == SelectSeq(PathList, LAMBDA p : IndexWorktreeItem(idx, wt, p) # "None")
    IN  [i \in 1..Len(changed) |->
            GitFileStatus(changed[i],
                          StatusTypeOfItem(IndexWorktreeItem(idx, wt, changed[i])),
                          FALSE)]

\* the index entries in index order
IndexEntries(idx) == SelectSeq(PathList, LAMBDA p : idx[p] # NoEntry)

get_staged_files_initial_commit(idx) ==
    LET cur == IndexEntries(idx)
    IN  [i \in 1..Len(cur) |-> GitFileStatus(cur[i], "Added", TRUE)]

\* a staged pass that compares whole entries, mode included
get_staged_changes_gix_by_entry(head, tip, idx, mapOrder) ==
    IF Unborn(tip) THEN get_staged_files_initial_commit(idx)
    ELSE
      LET cur == IndexEntries(idx)
          differ == SelectSeq(cur, LAMBDA p : head[p] = NoEntry \/ idx[p] # head[p])
          present == [i \in 1..Len(differ) |->
                        IF head[differ[i]] # NoEntry
                        THEN GitFileStatus(differ[i], "Modified", TRUE)
                        ELSE GitFileStatus(differ[i], "Added", TRUE)]
          gone == SelectSeq(mapOrder, LAMBDA p : head[p] # NoEntry /\ idx[p] = NoEntry)
          deleted == [i \in 1..Len(gone) |-> GitFileStatus(gone[i], "Deleted", TRUE)]
      IN  present \o deleted

\* `mapOrder` is the iteration order of head_entry_map (a HashMap).
get_staged_changes_gix(head, tip, idx, mapOrder) ==
    IF Unborn(tip) THEN get_staged_files_initial_commit(idx)
    ELSE
      LET cur == IndexEntries(idx)
          differ == SelectSeq(cur, LAMBDA p : head[p] = NoEntry \/ idx[p].id # head[p].id)
          present == [i \in 1..Len(differ) |->
                        IF head[differ[i]] # NoEntry
                        THEN GitFileStatus(differ[i], "Modified", TRUE)
                        ELSE GitFileStatus(differ[i], "Added", TRUE)]
          gone == SelectSeq(mapOrder, LAMBDA p : head[p] # NoEntry /\ idx[p] = NoEntry)
          deleted == [i \in 1..Len(gone) |-> GitFileStatus(gone[i], "Deleted", TRUE)]
      IN  present \o deleted

RECURSIVE MergeStaged(_, _)
\* the loop of get_git_status_pure_gix over the staged records
MergeStaged(files, staged) ==
    IF staged = <<>> THEN files
    ELSE
      LET s == Head(staged)
          hits == {i \in 1..Len(files) : files[i].path = s.path}
      IN  IF hits # {}
          THEN LET k == CHOOSE i \in hits : \A j \in hits : i <= j
               IN  MergeStaged([files EXCEPT ![k].staged = TRUE], Tail(staged))
          ELSE MergeStaged(Append(files, s), Tail(staged))

get_git_status_pure_gix(head, tip, idx, wt, mapOrder) ==
    MergeStaged(get_unstaged_changes_gix(idx, wt),
                get_staged_changes_gix(head, tip, idx, mapOrder))

-----------------------------------------------------------------------------
(* The fallback backend: `git status --porcelain=v1 -z` and its parser *)

\* file and link are different object types to git's diff (a type change)
SameType(e, f) == e.mode = f.mode

\* first status column: HEAD against the index
XCode(h, i) ==
    IF h = NoEntry THEN (IF i = NoEntry THEN " " ELSE "A")
    ELSE IF i = NoEntry THEN "D"
    ELSE IF h = i THEN " "
    ELSE IF ~SameType(h, i) THEN "T"
    ELSE "M"

\* second status column: the index against the working tree
YCode(i, w) ==
    IF i = NoEntry THEN " "
    ELSE IF w = NoEntry THEN "D"
    ELSE IF w = i THEN " "
    ELSE IF ~SameType(i, w) THEN "T"
    ELSE "M"

\* git pairs a path deleted from the index with an added path that holds the
\* same object (an exact rename): the sources that `p` could be a rename of
RenameSources(head, idx, p) ==
    IF head[p] = NoEntry /\ idx[p] # NoEntry
    THEN SelectSeq(PathList, LAMBDA q : head[q] # NoEntry /\ idx[q] = NoEntry
                                         /\ head[q] = idx[p])
    ELSE <<>>

IsRenameSource(head, idx, q) ==
    \E p \in Paths : LET src == RenameSources(head, idx, p)
                     IN  src # <<>> /\ Head(src) = q

\* the NUL-delimited fields git prints for tracked path p
TrackedFields(head, idx, wt, p) ==
    LET src == RenameSources(head, idx, p)
        x == XCode(head[p], idx[p])
        y == YCode(idx[p], wt[p])
    IN  IF src # <<>> THEN << <<"R", y, " ">> \o p, Head(src) >>
        ELSE IF IsRenameSource(head, idx, p) THEN <<>>
        ELSE IF x # " " \/ y # " " THEN << <<x, y, " ">> \o p >>
        ELSE <<>>

UntrackedFields(idx, wt, p) ==
    IF idx[p] = NoEntry /\ wt[p] # NoEntry THEN << <<"?", "?", " ">> \o p >> ELSE <<>>

RECURSIVE Flatten(_)
Flatten(ss) == IF ss = <<>> THEN <<>> ELSE Head(ss) \o Flatten(Tail(ss))

\* stdout of the command split at NUL: the tracked changes in path order,
\* then the untracked files, then the empty field after the last NUL
GitStatusPorcelain(head, idx, wt) ==
    Flatten([i \in 1..Len(PathList) |-> TrackedFields(head, idx, wt, PathList[i])])
    \o Flatten([i \in 1..Len(PathList) |-> UntrackedFields(idx, wt, PathList[i])])
    \o << <<>> >>

\* the match on (index_status, worktree_status); "skip" is `_ => continue`
FallbackCodes(x, y) ==
    CASE x = "A" -> [status |-> "Added", staged |-> TRUE]
      [] x = "M" -> [status |-> "Modified", staged |-> TRUE]
      [] x = "D" -> [status |-> "Deleted", staged |-> TRUE]
      [] x = "R" -> [status |-> "Renamed", staged |-> TRUE]
      [] x = "C" -> [status |-> "Added", staged |-> TRUE]
      [] x = "T" -> [status |-> "TypeChange", staged |-> TRUE]
      [] x \notin {"A", "M", "D", "R", "C", "T"} /\ y = "M"
           -> [status |-> "Modified", staged |-> FALSE]
      [] x \notin {"A", "M", "D", "R", "C", "T"} /\ y = "D"
           -> [status |-> "Deleted", staged |-> FALSE]
      [] x \notin {"A", "M", "D", "R", "C", "T"} /\ y = "T"
           -> [status |-> "TypeChange", staged |-> FALSE]
      [] x = "?" /\ y = "?" -> [status |-> "Untracked", staged |-> FALSE]
      [] OTHER -> [status |-> "skip", staged |-> FALSE]

\* the records one field yields (none or one)
ParseStatusLine(line) ==
    IF line = <<>> \/ Len(line) < 3 THEN <<>>
    ELSE LET c == FallbackCodes(line[1], line[2])
         IN  IF c.status = "skip" THEN <<>>
             ELSE << GitFileStatus(SubSeq(line, 4, Len(line)), c.status, c.staged) >>

ParseFallback(lines) == Flatten([i \in 1..Len(lines) |-> ParseStatusLine(lines[i])])

get_git_status_fallback(head, idx, wt) == ParseFallback(GitStatusPorcelain(head, idx, wt))

-----------------------------------------------------------------------------
(* git2's status flags and the staging functions *)

\* git2::Status of path p as repo.statuses(None) reports it: HEAD against
\* the index (INDEX_*) and the index against the working tree (WT_*), type
\* changes included, no rename detection; empty when the path is unchanged
\* (such a path is not listed).
StatusFlags(head, idx, wt, p) ==
    LET h == head[p]
        i == idx[p]
        w == wt[p]
    IN  (IF h = NoEntry /\ i # NoEntry THEN {"INDEX_NEW"}
         ELSE IF h # NoEntry /\ i = NoEntry THEN {"INDEX_DELETED"}
         ELSE IF h # i /\ ~SameType(h, i) THEN {"INDEX_TYPECHANGE"}
         ELSE IF h # i THEN {"INDEX_MODIFIED"}
         ELSE {})
        \cup
        (IF i = NoEntry /\ w # NoEntry THEN {"WT_NEW"}
         ELSE IF i # NoEntry /\ w = NoEntry THEN {"WT_DELETED"}
         ELSE IF i # w /\ ~SameType(i, w) THEN {"WT_TYPECHANGE"}
         ELSE IF i # w THEN {"WT_MODIFIED"}
         ELSE {})

\* the paths repo.statuses(None) lists, in path order
StatusPaths(head, idx, wt) ==
    SelectSeq(PathList, LAMBDA p : StatusFlags(head, idx, wt, p) # {})

\* What can go wrong inside a call: "head", "peel" and "tree" are
\* repo.head(), peel_to_commit() and tree() returning Err; "io" is any call
\* whose error `?` propagates (opening the repository or the index, reading
\* the statuses, index.add, index.write).
Faults == {"none", "head", "peel", "tree", "io"}

Ok(idx) == [ok |-> TRUE, index |-> idx]

Err(idx) == [ok |-> FALSE, index |-> idx]

\* a removal that leaves the entry in place
remove_path_kept(idx, p) == idx

\* index.remove_path: succeeds too when the path has no entry
remove_path(idx, p) == [idx EXCEPT ![p] = NoEntry]

\* an addition that does not write the entry
add_path_skipped(idx, wt, p) == idx

\* index.add_path of a path whose file exists: the entry takes the file's
\* content and mode
add_path(idx, wt, p) == [idx EXCEPT ![p] = wt[p]]

\* index.add of the entry built from HEAD's tree entry (lines 534-550)
reset_entry(idx, head, p) ==
    [idx EXCEPT ![p] = [id |-> head[p].id, mode |-> head[p].mode]]

\* stage_file: the persisted index and Ok/Err
stage_file(idx, wt, p, fault) ==
    IF fault = "io" \/ wt[p] = NoEntry THEN Err(idx)
    ELSE Ok(add_path(idx, wt, p))

RECURSIVE AddPaths(_, _, _)
\* the loop of stage_files on the in-memory index; "failed" on the first Err
AddPaths(mem, wt, paths) ==
    IF paths = <<>> THEN [failed |-> FALSE, index |-> mem]
    ELSE IF wt[Head(paths)] = NoEntry THEN [failed |-> TRUE, index |-> mem]
    ELSE AddPaths(add_path(mem, wt, Head(paths)), wt, Tail(paths))

stage_files(idx, wt, paths, fault) ==
    LET r == AddPaths(idx, wt, paths)
    IN  IF fault = "io" \/ r.failed THEN Err(idx) ELSE Ok(r.index)

RECURSIVE StageAllLoop(_, _, _, _, _)
\* the loop of stage_all_files over the status snapshot taken at the start
StageAllLoop(mem, head, idx, wt, paths) ==
    IF paths = <<>> THEN mem
    ELSE
      LET p == Head(paths)
          st == StatusFlags(head, idx, wt, p)
          next == IF st \cap {"WT_NEW", "WT_MODIFIED", "WT_DELETED"} # {}
                  THEN IF "WT_DELETED" \in st THEN remove_path(mem, p)
                       ELSE add_path(mem, wt, p)
                  ELSE mem
      IN  StageAllLoop(next, head, idx, wt, Tail(paths))

stage_all_files(head, idx, wt, fault) ==
    IF fault = "io" THEN Err(idx)
    ELSE Ok(StageAllLoop(idx, head, idx, wt, StatusPaths(head, idx, wt)))

unstage_file(head, tip, idx, wt, p, fault) ==
    LET status == StatusFlags(head, idx, wt, p)
        mem == IF "INDEX_NEW" \in status THEN remove_path(idx, p)
               ELSE IF "INDEX_MODIFIED" \in status \/ "INDEX_DELETED" \in status
               THEN IF Unborn(tip) \/ fault = "head" THEN remove_path(idx, p)
                    ELSE IF fault = "peel" THEN remove_path(idx, p)
                    ELSE IF fault = "tree" THEN remove_path(idx, p)
                    ELSE IF head[p] # NoEntry THEN reset_entry(remove_path(idx, p), head, p)
                    ELSE remove_path(idx, p)
               ELSE idx
    IN  IF fault = "io" THEN Err(idx)
        ELSE IF status = {} THEN Ok(idx)
        ELSE Ok(mem)

RECURSIVE UnstageEach(_, _, _, _, _, _, _)
\* unstage_file on each path in turn, stopping at the first Err; the fault
\* strikes the call numbered failAt (0: no call)
UnstageEach(head, tip, idx, wt, paths, failAt, fault) ==
    IF paths = <<>> THEN Ok(idx)
    ELSE
      LET r == unstage_file(head, tip, idx, wt, Head(paths),
                            IF failAt = 1 THEN fault ELSE "none")
      IN  IF ~r.ok THEN r
          ELSE UnstageEach(head, tip, r.index, wt, Tail(paths), failAt - 1, fault)

unstage_files(head, tip, idx, wt, paths, failAt, fault) ==
    UnstageEach(head, tip, idx, wt, paths, failAt, fault)

\* the paths unstage_all_files collects: staged as new, modified or deleted
StagedPaths(head, idx, wt) ==
    SelectSeq(StatusPaths(head, idx, wt),
              LAMBDA p : StatusFlags(head, idx, wt, p)
                           \cap {"INDEX_NEW", "INDEX_MODIFIED", "INDEX_DELETED"} # {})

unstage_all_files(head, tip, idx, wt, failAt, fault) ==
    UnstageEach(head, tip, idx, wt, StagedPaths(head, idx, wt), failAt, fault)

-----------------------------------------------------------------------------
(* The commit graph *)

\* number of commits in the histories a run starts from
MaxCommits == 3

RECURSIVE Ancestors(_, _)
\* the commits reachable from c, c included (none from 0)
Ancestors(cs, c) ==
    IF c = 0 THEN {}
    ELSE {c} \cup UNION {Ancestors(cs, cs[c].parents[i]) : i \in DOMAIN cs[c].parents}

\* repo.merge_base: a best common ancestor, 0 when there is none (an Err).
\* Commit ids are in topological order, so the greatest common one is best.
merge_base(cs, a, b) ==
    LET common == Ancestors(cs, a) \cap Ancestors(cs, b)
    IN  IF common = {} THEN 0 ELSE CHOOSE c \in common : \A d \in common : d <= c

\* counts with the two sides exchanged
graph_ahead_behind_swapped(cs, local, remote) ==
    [ahead |-> Cardinality(Ancestors(cs, remote) \ Ancestors(cs, local)),
     behind |-> Cardinality(Ancestors(cs, local) \ Ancestors(cs, remote))]

\* repo.graph_ahead_behind
graph_ahead_behind(cs, local, remote) ==
    [ahead |-> Cardinality(Ancestors(cs, local) \ Ancestors(cs, remote)),
     behind |-> Cardinality(Ancestors(cs, remote) \ Ancestors(cs, local))]

\* the blob an automatic content merge writes: unlike every blob before it
MergedBlob == NumBlobs + 2

\* The three-way merge of one path.  A side that kept the base's entry
\* yields to the other side; when both sides hold different files git2
\* merges their contents, which succeeds or conflicts with the contents
\* (`clean`); every other disagreement is a conflict.
MergeEntry(b, l, r, clean) ==
    IF l = r THEN [entry |-> l, conflict |-> FALSE]
    ELSE IF b = l THEN [entry |-> r, conflict |-> FALSE]
    ELSE IF b = r THEN [entry |-> l, conflict |-> FALSE]
    ELSE IF l # NoEntry /\ r # NoEntry /\ SameType(l, r) /\ clean
    THEN [entry |-> [id |-> MergedBlob, mode |-> l.mode], conflict |-> FALSE]
    ELSE [entry |-> l, conflict |-> TRUE]

\* repo.merge_trees: the merged entries and whether a path is in conflict
merge_trees(bt, lt, rt, clean) ==
    [tree |-> [p \in Paths |-> MergeEntry(bt[p], lt[p], rt[p], clean).entry],
     conflicts |-> \E p \in Paths : MergeEntry(bt[p], lt[p], rt[p], clean).conflict]

-----------------------------------------------------------------------------
(* SyncOperation and the remote sync functions *)

SyncOperation(kind, status, message) ==
    [kind |-> kind, status |-> status, message |-> message]

NoSync == SyncOperation("none", "none", <<>>)

\* the environment of a call that meets none
NoEnv == [net |-> "none", clean |-> FALSE, signature |-> FALSE, push |-> FALSE]

\* a message is the list of the parts format! joins
Contains(message, part) == \E i \in 1..Len(message) : message[i] = part

\* The functions work on the repository as a record and return Ok with a
\* SyncOperation, or Err, together with the repository they leave behind.
RetOk(op, r) == [ok |-> TRUE, sync |-> op, repo |-> r]

RetErr(r) == [ok |-> FALSE, sync |-> NoSync, repo |-> r]

HeadOf(r) == IF r.detached # 0 THEN r.detached ELSE r.localTip

\* find_branch("origin/<shorthand of HEAD>"): 0 when there is no such
\* branch, as for a detached HEAD
TrackingOf(r) == IF r.detached # 0 THEN 0 ELSE r.trackTip

CredentialTypes == {"SSH_KEY", "USER_PASS_PLAINTEXT"}

\* The credentials callback of fetch_origin_git2 and of push_origin:
\* allowed_types is what the server accepts, agent and helper tell whether
\* Cred::ssh_key_from_agent and Cred::credential_helper return Ok.  The
\* result is the credential returned (Err: none) and the methods tried.
credentials(allowed_types, agent, helper) ==
    IF "SSH_KEY" \in allowed_types /\ agent
    THEN [ok |-> TRUE, cred |-> "ssh_key_from_agent", tried |-> <<"ssh_key_from_agent">>]
    ELSE IF "USER_PASS_PLAINTEXT" \in allowed_types /\ helper
    THEN [ok |-> TRUE, cred |-> "credential_helper",
          tried |-> (IF "SSH_KEY" \in allowed_types THEN <<"ssh_key_from_agent">> ELSE <<>>)
                    \o <<"credential_helper">>]
    ELSE [ok |-> FALSE, cred |-> "No suitable authentication method found",
          tried |-> (IF "SSH_KEY" \in allowed_types THEN <<"ssh_key_from_agent">> ELSE <<>>)
                    \o (IF "USER_PASS_PLAINTEXT" \in allowed_types
                        THEN <<"credential_helper">> ELSE <<>>)]

\* What a server does with a connection: it asks for credentials or not,
\* accepts the ones the callback returns or not, and the transfer then
\* works or not.
AuthCases ==
    [asked : BOOLEAN, allowed_types : SUBSET CredentialTypes, agent : BOOLEAN,
     helper : BOOLEAN, accepted : BOOLEAN, transfer : BOOLEAN]

\* the server of a call that connects to none
NoAuth ==
    [asked |-> FALSE, allowed_types |-> {}, agent |-> FALSE, helper |-> FALSE,
     accepted |-> FALSE, transfer |-> FALSE]

\* remote.fetch and remote.push with that callback: Ok, or the error class
remote_transfer(c) ==
    IF c.asked /\ ~credentials(c.allowed_types, c.agent, c.helper).ok THEN "Auth"
    ELSE IF c.asked /\ ~c.accepted THEN "Auth"
    ELSE IF c.transfer THEN "Ok" ELSE "Net"

\* What the network and the tools do during one fetch: the library fetch
\* succeeds ("git2_ok"), or it fails and `git fetch origin` succeeds
\* ("cli_ok"), exits non-zero ("cli_fail") or cannot be started
\* ("cli_missing").  Without a remote named origin neither can succeed.
NetOutcomes(r) ==
    IF r.hasOrigin THEN {"git2_ok", "cli_ok", "cli_fail", "cli_missing"}
    ELSE {"cli_fail", "cli_missing"}

\* a successful fetch moves the remote-tracking ref to the remote's branch
Fetched(r) ==
    [r EXCEPT !.trackTip = IF r.upstreamTip # 0 THEN r.upstreamTip ELSE r.trackTip]

\* a transport attempt is made
Sent(r, transport) == [r EXCEPT !.wire = Append(@, transport)]

\* without a remote named origin find_remote fails and nothing is sent
fetch_origin_git2(r, net) ==
    IF net = "git2_ok"
    THEN RetOk(SyncOperation("Fetch", "Success", <<"Successfully fetched from remote">>),
               Fetched(Sent(r, "remote.fetch")))
    ELSE IF r.hasOrigin THEN RetErr(Sent(r, "remote.fetch"))
    ELSE RetErr(r)

fetch_origin_fallback(r, net) ==
    IF net = "cli_missing" THEN RetErr(r)
    ELSE IF net = "cli_ok"
    THEN RetOk(SyncOperation("Fetch", "Success",
                             <<"Successfully fetched from remote (fallback)">>),
               Fetched(Sent(r, "git fetch origin")))
    ELSE RetOk(SyncOperation("Fetch", "Error", <<"Failed to fetch: ", "stderr">>),
               Sent(r, "git fetch origin"))

\* a fetch that runs the git program a second time when it failed
fetch_origin_retrying(r, net) ==
    LET g == fetch_origin_git2(r, net)
        f == fetch_origin_fallback(g.repo, net)
    IN  IF g.ok THEN g
        ELSE IF f.ok /\ f.sync.status = "Error" THEN fetch_origin_fallback(f.repo, net)
        ELSE f

fetch_origin(r, net) ==
    LET g == fetch_origin_git2(r, net)
    IN  IF g.ok THEN g ELSE fetch_origin_fallback(g.repo, net)

\* perform_merge and perform_rebase return Ok(()) or Err(e): e is the
\* message of the error
Done(r) == [ok |-> TRUE, err |-> <<>>, repo |-> r]

Failed(e, r) == [ok |-> FALSE, err |-> e, repo |-> r]

\* a conflict check that sees no conflict
has_conflicts_blind(m) == FALSE

\* index.has_conflicts on the result of merge_trees
has_conflicts(m) == m.conflicts

\* parents in the order remote tip, local tip
MergeParents_swapped(local, remote_oid) == <<remote_oid, local>>

\* the parents repo.commit is given: &[&local_commit, &remote_commit]
MergeParents(local, remote_oid) == <<local, remote_oid>>

\* env.clean: content merges succeed; env.signature: repo.signature() is Ok
perform_merge(r, remote_oid, env) ==
    LET local == HeadOf(r)
        base == merge_base(r.commits, local, remote_oid)
        m == merge_trees(r.commits[base].tree, r.commits[local].tree,
                         r.commits[remote_oid].tree, env.clean)
        merged == [parents |-> MergeParents(local, remote_oid), tree |-> m.tree]
        new == Len(r.commits) + 1
    IN  IF base = 0 THEN Failed(<<"Git2 error: ", "no merge base found">>, r)
        ELSE IF has_conflicts(m)
        THEN Failed(<<"Git error: ", "Merge conflicts detected">>, r)
        ELSE IF ~env.signature THEN Failed(<<"Git2 error: ", "config value not found">>, r)
        ELSE Done(IF r.detached # 0
                  THEN [r EXCEPT !.commits = Append(r.commits, merged), !.detached = new]
                  ELSE [r EXCEPT !.commits = Append(r.commits, merged), !.localTip = new])

\* the entry checkout leaves in the index for an unresolved path
ConflictEntry == [id |-> 0, mode |-> "conflict"]

\* the commits rebase replays: those of local not reachable from the merge
\* base, merge commits skipped, oldest first
RebaseOperations(cs, local, base) ==
    LET todo == {c \in Ancestors(cs, local) \ Ancestors(cs, base) : Len(cs[c].parents) <= 1}
    IN  SelectSeq([i \in 1..Len(cs) |-> i], LAMBDA c : c \in todo)

RECURSIVE RebaseLoop(_, _, _)
\* the while loop of perform_rebase and rebase.finish: each operation is
\* merged onto HEAD (rebase.next), then committed (rebase.commit); an Err
\* returns at once and leaves the rebase where it stands.  The branch was
\* given to repo.rebase as a bare object id, so the rebase holds no branch
\* name to return to: finish leaves HEAD detached at the last new commit.
RebaseLoop(r, ops, env) ==
    IF ops = <<>>
    THEN Done([r EXCEPT !.rebasing = FALSE])
    ELSE
      LET c == Head(ops)
          parentTree == IF r.commits[c].parents = <<>> THEN EmptyTree
                        ELSE r.commits[r.commits[c].parents[1]].tree
          headTree == r.commits[r.detached].tree
          m == merge_trees(parentTree, headTree, r.commits[c].tree, env.clean)
          checkedOut == [p \in Paths |->
                            IF MergeEntry(parentTree[p], headTree[p],
                                          r.commits[c].tree[p], env.clean).conflict
                            THEN ConflictEntry ELSE m.tree[p]]
          applied == [r EXCEPT !.index = checkedOut, !.worktree = checkedOut]
          picked == [parents |-> <<r.detached>>, tree |-> m.tree]
      IN  IF ~env.signature
          THEN Failed(<<"Git2 error: ", "config value not found">>, applied)
          ELSE IF m.conflicts
          THEN Failed(<<"Git2 error: ", "conflicts have not been resolved">>, applied)
          ELSE IF m.tree = headTree
          THEN Failed(<<"Git2 error: ", "this patch has already been applied">>, applied)
          ELSE RebaseLoop([applied EXCEPT !.commits = Append(r.commits, picked),
                                          !.detached = Len(r.commits) + 1],
                          Tail(ops), env)

\* repo.rebase refuses to start over a rebase in progress or over staged or
\* unstaged changes; it then detaches HEAD at the remote tip and checks it out
perform_rebase(r, local_oid, remote_oid, env) ==
    LET base == merge_base(r.commits, local_oid, remote_oid)
        started == [r EXCEPT !.detached = remote_oid, !.rebasing = TRUE,
                             !.index = r.commits[remote_oid].tree,
                             !.worktree = r.commits[remote_oid].tree]
    IN  IF base = 0 THEN Failed(<<"Git2 error: ", "no merge base found">>, r)
        ELSE IF r.rebasing
        THEN Failed(<<"Git2 error: ", "there is an existing rebase in progress">>, r)
        ELSE IF r.index # r.commits[local_oid].tree \/ r.worktree # r.index
        THEN Failed(<<"Git2 error: ", "uncommitted changes exist">>, r)
        ELSE RebaseLoop(started, RebaseOperations(r.commits, local_oid, base), env)

\* a tip comparison that never finds the tips equal
UpToDate_never(local_oid, remote_oid) == FALSE

\* the test `local_oid == remote_oid` of pull_origin
UpToDate(local_oid, remote_oid) == local_oid = remote_oid

\* The message "Already up to date" is written as the two parts "Already "
\* and "up to date".
pull_origin(r, use_rebase, env) ==
    LET f == fetch_origin(r, env.net)
        r1 == f.repo
        local_oid == HeadOf(r1)
        remote_oid == TrackingOf(r1)
        rb == perform_rebase(r1, local_oid, remote_oid, env)
        mg == perform_merge(r1, remote_oid, env)
    IN  IF ~f.ok THEN RetErr(r1)
        ELSE IF f.sync.status = "Error"
        THEN RetOk(SyncOperation("Pull", "Error",
                                 <<"Pull failed during fetch: ">> \o f.sync.message), r1)
        ELSE IF local_oid = 0 THEN RetErr(r1)
        ELSE IF remote_oid = 0
        THEN RetOk(SyncOperation("Pull", "Error", <<"No remote tracking branch found">>), r1)
        ELSE IF UpToDate(local_oid, remote_oid)
        THEN RetOk(SyncOperation("Pull", "Success", <<"Already ", "up to date">>), r1)
        ELSE IF use_rebase
        THEN IF rb.ok
             THEN RetOk(SyncOperation("Pull", "Success",
                                      <<"Successfully rebased local changes">>), rb.repo)
             ELSE RetOk(SyncOperation("Pull", "Error", <<"Rebase failed: ">> \o rb.err),
                        rb.repo)
        ELSE IF mg.ok
             THEN RetOk(SyncOperation("Pull", "Success",
                                      <<"Successfully merged remote changes">>), mg.repo)
             ELSE RetOk(SyncOperation("Pull", "Error", <<"Merge failed: ">> \o mg.err),
                        mg.repo)

\* a push without force is accepted only as a fast-forward of the remote
CanPush(r) ==
    r.hasOrigin /\ (r.upstreamTip = 0 \/ r.upstreamTip \in Ancestors(r.commits, HeadOf(r)))

\* env.push: remote.push returns Ok
push_origin(r, env) ==
    IF ~r.hasOrigin THEN RetErr(r)
    ELSE IF HeadOf(r) = 0 THEN RetErr(r)
    ELSE IF env.push /\ CanPush(r)
    THEN RetOk(SyncOperation("Push", "Success", <<"Successfully pushed to remote">>),
               [Sent(r, "remote.push") EXCEPT !.upstreamTip = HeadOf(r),
                                              !.trackTip = HeadOf(r)])
    ELSE RetOk(SyncOperation("Push", "Error", <<"Failed to push: ", "git2 error">>),
               Sent(r, "remote.push"))

\* Err is [ok |-> FALSE]; Ok carries (ahead, behind)
get_ahead_behind_counts(r) ==
    IF HeadOf(r) = 0 THEN [ok |-> FALSE, ahead |-> 0, behind |-> 0]
    ELSE IF TrackingOf(r) # 0
    THEN [ok |-> TRUE,
          ahead |-> graph_ahead_behind(r.commits, HeadOf(r), TrackingOf(r)).ahead,
          behind |-> graph_ahead_behind(r.commits, HeadOf(r), TrackingOf(r)).behind]
    ELSE [ok |-> TRUE, ahead |-> Cardinality(Ancestors(r.commits, HeadOf(r))), behind |-> 0]

\* name, url and last_fetch are left out: no operation reads them
get_remote_status(r) ==
    IF ~r.hasOrigin THEN [ok |-> FALSE, ahead |-> 0, behind |-> 0]
    ELSE get_ahead_behind_counts(r)

\* a refresh that measures the counts before it fetches
refresh_remote_status_stale(r, env) ==
    LET f == fetch_origin(r, env.net)
        rs == get_remote_status(r)
        fetched == f.sync.status = "Success"
    IN  IF ~f.ok \/ ~rs.ok
        THEN [ok |-> FALSE, sync |-> NoSync, remote |-> [ahead |-> 0, behind |-> 0],
              repo |-> f.repo]
        ELSE [ok |-> TRUE,
              sync |-> SyncOperation("Refresh",
                          IF fetched THEN "Success" ELSE "Error",
                          IF fetched
                          THEN <<"Updated status - ", rs.ahead, " ahead, ", rs.behind, " behind">>
                          ELSE <<"Failed to refresh: ">> \o f.sync.message),
              remote |-> [ahead |-> rs.ahead, behind |-> rs.behind],
              repo |-> f.repo]

\* the SyncOperation, the RemoteStatus and the repository left behind
refresh_remote_status(r, env) ==
    LET f == fetch_origin(r, env.net)
        rs == get_remote_status(f.repo)
        fetched == f.sync.status = "Success"
    IN  IF ~f.ok \/ ~rs.ok
        THEN [ok |-> FALSE, sync |-> NoSync, remote |-> [ahead |-> 0, behind |-> 0],
              repo |-> f.repo]
        ELSE [ok |-> TRUE,
              sync |-> SyncOperation("Refresh",
                          IF fetched THEN "Success" ELSE "Error",
                          IF fetched
                          THEN <<"Updated status - ", rs.ahead, " ahead, ", rs.behind, " behind">>
                          ELSE <<"Failed to refresh: ">> \o f.sync.message),
              remote |-> [ahead |-> rs.ahead, behind |-> rs.behind],
              repo |-> f.repo]

-----------------------------------------------------------------------------
(* AppState: the update tab *)

\* the length add_sync_operation keeps of the operation log
LogCap == 10

\* Option<RemoteStatus>::None
NoRemoteStatus == [ahead |-> -1, behind |-> -1]

\* AppState::new.  `added` is not a field of the program: it lists every
\* operation add_sync_operation was ever given, oldest first, so that the
\* log can be compared with its history.  `active_tab` is the local of
\* start_tui that selects the tab drawn, kept with the state it is drawn
\* from (0 Overview, 1 Files, 2 Save Changes, 3 Update, 4 Settings).
AppNew ==
    [pull_rebase |-> TRUE,
     update_remote_status |-> NoRemoteStatus,
     update_recent_operations |-> <<>>,
     show_error_popup |-> FALSE,
     error_popup_title |-> "",
     save_changes_git_status |-> <<>>,
     save_changes_git_status_loaded |-> FALSE,
     status_git_status |-> <<>>,
     status_git_status_loaded |-> FALSE,
     active_tab |-> 0,
     added |-> <<>>]

\* Vec::truncate
Truncate(v, n) == IF Len(v) > n THEN SubSeq(v, 1, n) ELSE v

\* an addition that appends and then keeps the first entries
add_sync_operation_at_end(a, operation) ==
    [a EXCEPT !.update_recent_operations = Truncate(Append(@, operation), LogCap),
              !.added = Append(@, operation)]

add_sync_operation(a, operation) ==
    [a EXCEPT !.update_recent_operations =
                  IF Len(<<operation>> \o @) > LogCap
                  THEN Truncate(<<operation>> \o @, LogCap)
                  ELSE <<operation>> \o @,
              !.added = Append(@, operation)]

show_error(a, title) ==
    [a EXCEPT !.show_error_popup = TRUE, !.error_popup_title = title]

\* `if let Ok(remote_status) = get_remote_status()` after a pull or a push
ReloadRemoteStatus(a, r) ==
    IF get_remote_status(r).ok
    THEN [a EXCEPT !.update_remote_status =
                      [ahead |-> get_remote_status(r).ahead,
                       behind |-> get_remote_status(r).behind]]
    ELSE a

\* The handlers return the AppState and the repository they leave, and
\* what the git function returned (for the record of the call).
Handled(a, res) == [app |-> a, repo |-> res.repo, ok |-> res.ok, sync |-> res.sync]

refresh_update_remote_status(a, r, env) ==
    LET res == refresh_remote_status(r, env)
    IN  IF res.ok
        THEN Handled(add_sync_operation([a EXCEPT !.update_remote_status = res.remote],
                                        res.sync), res)
        ELSE Handled(add_sync_operation(
                        show_error(a, "Refresh Failed"),
                        SyncOperation("Refresh", "Error", <<"Failed to refresh: ", "e">>)),
                     res)

\* a pull that shows a failure without logging it
perform_pull_unlogged(a, r, env) ==
    LET res == pull_origin(r, a.pull_rebase, env)
    IN  IF res.ok
        THEN Handled(ReloadRemoteStatus(add_sync_operation(a, res.sync), res.repo), res)
        ELSE Handled(show_error(a, "Pull Failed"), res)

perform_pull(a, r, env) ==
    LET res == pull_origin(r, a.pull_rebase, env)
    IN  IF res.ok
        THEN Handled(ReloadRemoteStatus(add_sync_operation(a, res.sync), res.repo), res)
        ELSE Handled(add_sync_operation(
                        show_error(a, "Pull Failed"),
                        SyncOperation("Pull", "Error", <<"Pull failed: ", "e">>)),
                     res)

perform_push(a, r, env) ==
    LET res == push_origin(r, env)
    IN  IF res.ok
        THEN Handled(ReloadRemoteStatus(add_sync_operation(a, res.sync), res.repo), res)
        ELSE Handled(add_sync_operation(
                        show_error(a, "Push Failed"),
                        SyncOperation("Push", "Error", <<"Push failed: ", "e">>)),
                     res)

-----------------------------------------------------------------------------
(* The record of the last call *)

NoCall ==
    [op |-> "none", path |-> NoPath, paths |-> <<>>, fault |-> "none",
     failAt |-> 0, ok |-> TRUE, flags |-> {}, backend |-> "none", files |-> <<>>,
     use_rebase |-> FALSE, sync |-> NoSync, remote |-> [ahead |-> 0, behind |-> 0],
     env |-> NoEnv, auth |-> NoAuth, unstaged_files |-> <<>>, staged_files |-> <<>>]

\* the arguments a caller can pass: lists of distinct paths
PathSeqs ==
    {s \in UNION {[1..n -> Paths] : n \in 0..Len(PathList)} :
        \A i, j \in DOMAIN s : i # j => s[i] # s[j]}

\* the orders a HashMap can iterate the paths in
PathOrders == {s \in PathSeqs : Len(s) = Len(PathList)}

\* the commit HEAD resolves to (0 on an unborn branch)
HeadCommit == IF detached # 0 THEN detached ELSE localTip

HeadTree == HeadTreeOf(commits, HeadCommit)

-----------------------------------------------------------------------------
(* Status and staging: one call on any repository state *)

\* the blob ids of the three snapshots, path by path
BlobScan(head, idx, wt) ==
    Flatten([i \in 1..Len(PathList) |->
                <<head[PathList[i]].id, idx[PathList[i]].id, wt[PathList[i]].id>>])

\* Blob ids are opaque object names that the program only compares for
\* equality, so every repository state is one of these up to renaming its
\* blobs: the ids appear in the order 1, 2, ... along the scan.
Canonical(ids) ==
    \A k \in 1..Len(ids) :
        \/ ids[k] <= 1
        \/ \E j \in 1..(k - 1) : ids[j] = ids[k] - 1

\* any HEAD tree (or an unborn branch), any index, any working tree
InitRepo ==
    /\ \/ commits = <<>> /\ localTip = 0
       \/ \E t \in Trees : commits = <<[parents |-> <<>>, tree |-> t]>> /\ localTip = 1
    /\ trackTip = 0
    /\ upstreamTip = 0
    /\ hasOrigin = FALSE
    /\ detached = 0
    /\ rebasing = FALSE
    /\ index \in Trees
    /\ worktree \in Trees
    /\ Canonical(BlobScan(HeadTree, index, worktree))
    /\ last = NoCall
    /\ app = AppNew
    /\ wire = <<>>

\* a status call that refreshes the index from the working tree
GetGitStatus_refreshing ==
    /\ last.op = "none"
    /\ UNCHANGED app
    /\ last' = [NoCall EXCEPT !.op = "get_git_status", !.backend = "gix",
                              !.files = get_git_status_pure_gix(HeadTree, HeadCommit, index,
                                                                worktree, PathList)]
    /\ index' = worktree
    /\ UNCHANGED notIndexVars

\* a status call that answers with an empty list when both backends fail
GetGitStatus_swallowing ==
    /\ last.op = "none"
    /\ UNCHANGED app
    /\ \E primaryOk \in BOOLEAN :
         last' = IF primaryOk
                 THEN [NoCall EXCEPT !.op = "get_git_status", !.backend = "gix",
                          !.files = get_git_status_pure_gix(HeadTree, HeadCommit, index,
                                                            worktree, PathList)]
                 ELSE [NoCall EXCEPT !.op = "get_git_status", !.backend = "fallback",
                          !.fault = "both"]
    /\ UNCHANGED repoVars

\* get_git_status: the primary backend, and the fallback when it fails.
\* fault tells which backends failed: "none", "primary" or "both"; the
\* lists of the two passes of the primary backend are kept beside the
\* merged list.
GetGitStatus ==
    /\ last.op = "none"
    /\ UNCHANGED app
    /\ \E primaryOk \in BOOLEAN, fallbackOk \in BOOLEAN, mapOrder \in PathOrders :
         last' = IF primaryOk
                 THEN [NoCall EXCEPT !.op = "get_git_status", !.backend = "gix",
                          !.unstaged_files = get_unstaged_changes_gix(index, worktree),
                          !.staged_files = get_staged_changes_gix(HeadTree, HeadCommit,
                                                                  index, mapOrder),
                          !.files = get_git_status_pure_gix(HeadTree, HeadCommit, index,
                                                            worktree, mapOrder)]
                 ELSE IF fallbackOk
                 THEN [NoCall EXCEPT !.op = "get_git_status", !.backend = "fallback",
                          !.fault = "primary",
                          !.files = get_git_status_fallback(HeadTree, index, worktree)]
                 ELSE [NoCall EXCEPT !.op = "get_git_status", !.backend = "fallback",
                          !.fault = "both", !.ok = FALSE]
    /\ UNCHANGED repoVars

StageFile ==
    /\ last.op = "none"
    /\ UNCHANGED app
    /\ \E p \in Paths, fault \in {"none", "io"} :
         LET r == stage_file(index, worktree, p, fault)
         IN  /\ index' = r.index
             /\ last' = [NoCall EXCEPT !.op = "stage_file", !.path = p, !.fault = fault,
                            !.ok = r.ok,
                            !.flags = StatusFlags(HeadTree, index, worktree, p)]
    /\ UNCHANGED notIndexVars

StageFiles ==
    /\ last.op = "none"
    /\ UNCHANGED app
    /\ \E paths \in PathSeqs, fault \in {"none", "io"} :
         LET r == stage_files(index, worktree, paths, fault)
         IN  /\ index' = r.index
             /\ last' = [NoCall EXCEPT !.op = "stage_files", !.paths = paths,
                            !.fault = fault, !.ok = r.ok]
    /\ UNCHANGED notIndexVars

StageAllFiles ==
    /\ last.op = "none"
    /\ UNCHANGED app
    /\ \E fault \in {"none", "io"} :
         LET r == stage_all_files(HeadTree, index, worktree, fault)
         IN  /\ index' = r.index
             /\ last' = [NoCall EXCEPT !.op = "stage_all_files",
                            !.paths = StatusPaths(HeadTree, index, worktree),
                            !.fault = fault, !.ok = r.ok]
    /\ UNCHANGED notIndexVars

\* an unstage that also checks HEAD's version out into the working tree
UnstageFile_checkout ==
    /\ last.op = "none"
    /\ UNCHANGED app
    /\ \E p \in Paths, fault \in Faults :
         LET r == unstage_file(HeadTree, HeadCommit, index, worktree, p, fault)
         IN  /\ index' = r.index
             /\ worktree' = IF r.ok THEN [worktree EXCEPT ![p] = HeadTree[p]] ELSE worktree
             /\ last' = [NoCall EXCEPT !.op = "unstage_file", !.path = p, !.fault = fault,
                            !.ok = r.ok,
                            !.flags = StatusFlags(HeadTree, index, worktree, p)]
    /\ UNCHANGED <<commits, localTip, trackTip, upstreamTip, hasOrigin, detached, rebasing,
                   wire>>

UnstageFile ==
    /\ last.op = "none"
    /\ UNCHANGED app
    /\ \E p \in Paths, fault \in Faults :
         LET r == unstage_file(HeadTree, HeadCommit, index, worktree, p, fault)
         IN  /\ index' = r.index
             /\ last' = [NoCall EXCEPT !.op = "unstage_file", !.path = p, !.fault = fault,
                            !.ok = r.ok,
                            !.flags = StatusFlags(HeadTree, index, worktree, p)]
    /\ UNCHANGED notIndexVars

UnstageFiles ==
    /\ last.op = "none"
    /\ UNCHANGED app
    /\ \E paths \in PathSeqs, failAt \in 0..Len(PathList), fault \in Faults \ {"none"} :
         LET r == unstage_files(HeadTree, HeadCommit, index, worktree, paths, failAt, fault)
         IN  /\ failAt <= Len(paths)
             /\ index' = r.index
             /\ last' = [NoCall EXCEPT !.op = "unstage_files", !.paths = paths,
                            !.fault = IF failAt = 0 THEN "none" ELSE fault,
                            !.failAt = failAt, !.ok = r.ok]
    /\ UNCHANGED notIndexVars

UnstageAllFiles ==
    /\ last.op = "none"
    /\ UNCHANGED app
    /\ \E failAt \in 0..Len(PathList), fault \in Faults \ {"none"} :
         LET staged == StagedPaths(HeadTree, index, worktree)
             r == unstage_all_files(HeadTree, HeadCommit, index, worktree, failAt, fault)
         IN  /\ failAt <= Len(staged)
             /\ index' = r.index
             /\ last' = [NoCall EXCEPT !.op = "unstage_all_files", !.paths = staged,
                            !.fault = IF failAt = 0 THEN "none" ELSE fault,
                            !.failAt = failAt, !.ok = r.ok]
    /\ UNCHANGED notIndexVars

NextRepo ==
    \/ GetGitStatus
    \/ StageFile
    \/ StageFiles
    \/ StageAllFiles
    \/ UnstageFile
    \/ UnstageFiles
    \/ UnstageAllFiles

SpecRepo == InitRepo /\ [][NextRepo]_vars

-----------------------------------------------------------------------------
(* Properties of status and staging (checked under SpecRepo) *)

\* the records of a status list that are about path p
RecordsOf(files, p) == {i \in 1..Len(files) : files[i].path = p}

UniquePaths(files) ==
    \A i, j \in 1..Len(files) : i # j => files[i].path # files[j].path

\* the set of (path, kind, staged) a status list holds
RecordSet(files) ==
    {[path |-> files[i].path, status |-> files[i].status, staged |-> files[i].staged] :
        i \in 1..Len(files)}

Rec(p, status, staged) == [path |-> p, status |-> status, staged |-> staged]

\* every list get_git_status can return on the current repository
StatusLists ==
    {get_git_status_pure_gix(HeadTree, HeadCommit, index, worktree, o) : o \in PathOrders}
    \cup {get_git_status_fallback(HeadTree, index, worktree)}

\* the lists the primary backend can return on the current repository
PrimaryLists ==
    {get_git_status_pure_gix(HeadTree, HeadCommit, index, worktree, o) : o \in PathOrders}

\* C1: every list get_git_status returns, from either backend, has at most
\* one record per path.
C1_UniquePerPath ==
    (last.op = "get_git_status" /\ last.ok) => UniquePaths(last.files)

\* C1, the primary backend alone: its lists have at most one record per path.
C1_PrimaryUnique ==
    (last.op = "get_git_status" /\ last.ok /\ last.backend = "gix")
        => UniquePaths(last.files)

\* C2: unstage_file(p) never removes the index entry of a path that HEAD
\* contains: a path in HEAD with an index entry before the call still has
\* an index entry after it, on every branch.
C2_UnstageKeepsHeadPaths ==
    [][(last'.op = "unstage_file"
          /\ HeadTree[last'.path] # NoEntry
          /\ index[last'.path] # NoEntry)
        => index'[last'.path] # NoEntry]_vars

\* C3: unstage_file(p) on a path of HEAD staged as Modified or Deleted sets
\* the index entry to HEAD's object id and mode, so that the index no
\* longer differs from HEAD at p.
C3_UnstageResetsToHead ==
    [][(last'.op = "unstage_file"
          /\ last'.ok
          /\ HeadTree[last'.path] # NoEntry
          /\ last'.flags \cap {"INDEX_MODIFIED", "INDEX_DELETED"} # {})
        => /\ index'[last'.path] = HeadTree[last'.path]
           /\ XCode(HeadTree[last'.path], index'[last'.path]) = " "]_vars

\* C3 on the branch that reads HEAD's tree: there the entry is reset.
C3_ResetWhenHeadRead ==
    [][(last'.op = "unstage_file"
          /\ last'.ok /\ last'.fault = "none"
          /\ HeadTree[last'.path] # NoEntry
          /\ last'.flags \cap {"INDEX_MODIFIED", "INDEX_DELETED"} # {})
        => index'[last'.path] = HeadTree[last'.path]]_vars

C5_EditThenStage ==
    \A a, b \in Paths :
        /\ (/\ last.op = "get_git_status" /\ last.ok
            /\ a # b
            /\ HeadTree[a] # NoEntry /\ index[a] = HeadTree[a]
            /\ StatusFlags(HeadTree, index, worktree, a) = {"WT_MODIFIED"}
            /\ HeadTree[b] = NoEntry /\ index[b] = NoEntry /\ worktree[b] # NoEntry)
           => /\ Len(last.files) = 2
              /\ RecordSet(last.files)
                    = {Rec(a, "Modified", FALSE), Rec(b, "Untracked", FALSE)}
        /\ (/\ last.op = "stage_file" /\ last.ok /\ last.path = a
            /\ a # b
            /\ last.flags = {"WT_MODIFIED"}
            /\ HeadTree[b] = NoEntry /\ index[b] = NoEntry /\ worktree[b] # NoEntry)
           => \A files \in StatusLists :
                /\ Len(files) = 2
                /\ RecordSet(files)
                      = {Rec(a, "Modified", TRUE), Rec(b, "Untracked", FALSE)}

\* the edited file was staged while the other file is untracked
C5_Witness ==
    \E a, b \in Paths :
        /\ last.op = "stage_file" /\ last.ok /\ last.path = a
        /\ a # b
        /\ last.flags = {"WT_MODIFIED"}
        /\ index[a] = worktree[a]
        /\ HeadTree[b] = NoEntry /\ index[b] = NoEntry /\ worktree[b] # NoEntry

\* C6: get_git_status changes nothing in the repository: commits, refs,
\* index entries and working-tree files are the same after the call,
\* whichever backend answered and also when the call failed.
C6_StatusReadOnly ==
    [][last'.op = "get_git_status" => UNCHANGED repoVars]_vars

\* a status call returned a non-empty list from the fallback
C6_Witness ==
    /\ last.op = "get_git_status" /\ last.ok
    /\ last.backend = "fallback"
    /\ last.files # <<>>

\* C7: in a bulk operation a failure on one path does not keep the other
\* paths from being staged or unstaged: after stage_files every listed path
\* whose file can be added holds the working-tree content, and after
\* unstage_files every listed path other than the failing one is unstaged.
C7_BulkIndependent ==
    /\ (last.op = "stage_files" /\ last.fault = "none")
        => \A i \in 1..Len(last.paths) :
              worktree[last.paths[i]] # NoEntry
                  => index[last.paths[i]] = worktree[last.paths[i]]
    /\ (last.op = "unstage_files" /\ last.fault = "io")
        => \A i \in 1..Len(last.paths) :
              i # last.failAt
                  => StatusFlags(HeadTree, index, worktree, last.paths[i])
                        \cap {"INDEX_NEW", "INDEX_MODIFIED", "INDEX_DELETED"} = {}

-----------------------------------------------------------------------------
(* Remote synchronisation: every call from every small history *)

\* the repository as the record the sync functions take
Repo ==
    [commits |-> commits, localTip |-> localTip, trackTip |-> trackTip,
     upstreamTip |-> upstreamTip, hasOrigin |-> hasOrigin, detached |-> detached,
     rebasing |-> rebasing, index |-> index, worktree |-> worktree, wire |-> wire]

\* the repository a call leaves behind
Becomes(r) ==
    /\ commits' = r.commits
    /\ localTip' = r.localTip
    /\ trackTip' = r.trackTip
    /\ upstreamTip' = r.upstreamTip
    /\ hasOrigin' = r.hasOrigin
    /\ detached' = r.detached
    /\ rebasing' = r.rebasing
    /\ index' = r.index
    /\ worktree' = r.worktree
    /\ wire' = r.wire

\* the trees of the histories: one file, PathA, present or not
SyncSlots == {NoEntry} \cup [id : 1..(NumBlobs + 1), mode : {"file"}]

SyncTrees == {t \in [Paths -> SyncSlots] : t[PathData] = NoEntry}

\* what the environment does during one call
Envs(r) == [net : NetOutcomes(r), clean : BOOLEAN, signature : BOOLEAN, push : BOOLEAN]

\* A history is c commits shared by both sides (0 or 1), then l commits
\* only the local branch has and u commits only the remote branch has.
\* Commit i's parent is the commit before it on its side.
ParentsOf(c, l, i) ==
    IF i = 1 THEN <<>>
    ELSE IF i = c + 1 THEN (IF c = 1 THEN <<1>> ELSE <<>>)
    ELSE IF i = c + l + 1 THEN (IF c = 1 THEN <<1>> ELSE <<>>)
    ELSE <<i - 1>>

TipOf(c, n, last_id) == IF n > 0 THEN last_id ELSE c

SyncHistories ==
    \E c \in 0..1, l \in 0..MaxCommits, u \in 0..MaxCommits :
      /\ c + l + u <= MaxCommits
      /\ \E trees \in [1..(c + l + u) -> SyncTrees] :
            commits = [i \in 1..(c + l + u) |->
                          [parents |-> ParentsOf(c, l, i), tree |-> trees[i]]]
      /\ localTip = TipOf(c, l, c + l)
      /\ hasOrigin \in BOOLEAN
      /\ upstreamTip = IF hasOrigin THEN TipOf(c, u, c + l + u) ELSE 0
      /\ hasOrigin \/ u = 0
      /\ trackTip \in IF hasOrigin
                      THEN {0} \cup Ancestors(commits, upstreamTip) \cup {localTip}
                      ELSE {0}
      /\ detached = 0
      /\ rebasing = FALSE
      /\ index = HeadTree
      /\ worktree \in SyncTrees
      /\ Canonical([i \in 1..(c + l + u) |-> commits[i].tree[PathA].id]
                   \o <<worktree[PathA].id>>)
      /\ last = NoCall
      /\ wire = <<>>

InitSync == SyncHistories /\ app = AppNew

FetchOrigin ==
    /\ last.op = "none"
    /\ UNCHANGED app
    /\ \E env \in Envs(Repo) :
         LET res == fetch_origin(Repo, env.net)
         IN  /\ Becomes(res.repo)
             /\ last' = [NoCall EXCEPT !.op = "fetch_origin", !.ok = res.ok, !.env = env,
                                       !.sync = res.sync]

PullOrigin ==
    /\ last.op = "none"
    /\ UNCHANGED app
    /\ \E env \in Envs(Repo), use_rebase \in BOOLEAN :
         LET res == pull_origin(Repo, use_rebase, env)
         IN  /\ Becomes(res.repo)
             /\ last' = [NoCall EXCEPT !.op = "pull_origin", !.ok = res.ok, !.env = env,
                                       !.use_rebase = use_rebase, !.sync = res.sync]

PushOrigin ==
    /\ last.op = "none"
    /\ UNCHANGED app
    /\ \E env \in Envs(Repo) :
         LET res == push_origin(Repo, env)
         IN  /\ Becomes(res.repo)
             /\ last' = [NoCall EXCEPT !.op = "push_origin", !.ok = res.ok, !.env = env,
                                       !.sync = res.sync]

RefreshRemoteStatus ==
    /\ last.op = "none"
    /\ UNCHANGED app
    /\ \E env \in Envs(Repo) :
         LET res == refresh_remote_status(Repo, env)
         IN  /\ Becomes(res.repo)
             /\ last' = [NoCall EXCEPT !.op = "refresh_remote_status", !.ok = res.ok, !.env = env,
                                       !.sync = res.sync, !.remote = res.remote]

\* get_remote_status, which reads the counts of get_ahead_behind_counts
GetRemoteStatus ==
    /\ last.op = "none"
    /\ UNCHANGED app
    /\ LET res == get_remote_status(Repo)
       IN  last' = [NoCall EXCEPT !.op = "get_remote_status", !.ok = res.ok,
                                  !.remote = [ahead |-> res.ahead, behind |-> res.behind]]
    /\ UNCHANGED repoVars

NextSync ==
    FetchOrigin \/ PullOrigin \/ PushOrigin \/ RefreshRemoteStatus \/ GetRemoteStatus

SpecSync == InitSync /\ [][NextSync]_vars

-----------------------------------------------------------------------------
(* The update tab: every handler call from every small history *)

\* an operation log at its full length, after LogCap failed pushes
FullLog == [i \in 1..LogCap |-> SyncOperation("Push", "Error", <<"Push failed: ", "e">>)]

\* the AppState a handler is called in: a new one, which pulls with
\* rebase, and one set to pull by merge whose log is full
AppStarts ==
    {AppNew,
     [AppNew EXCEPT !.pull_rebase = FALSE,
                    !.update_recent_operations = FullLog,
                    !.added = FullLog,
                    !.show_error_popup = TRUE,
                    !.error_popup_title = "Push Failed"]}

InitApp == SyncHistories /\ app \in AppStarts

PerformPull ==
    /\ last.op = "none"
    /\ \E env \in Envs(Repo) : \E h \in {perform_pull(app, Repo, env)} :
             /\ Becomes(h.repo)
             /\ app' = h.app
             /\ last' = [NoCall EXCEPT !.op = "perform_pull", !.ok = h.ok,
                                       !.use_rebase = app.pull_rebase, !.sync = h.sync]

PerformPush ==
    /\ last.op = "none"
    /\ \E env \in Envs(Repo) : \E h \in {perform_push(app, Repo, env)} :
             /\ Becomes(h.repo)
             /\ app' = h.app
             /\ last' = [NoCall EXCEPT !.op = "perform_push", !.ok = h.ok,
                                       !.sync = h.sync]

RefreshUpdateRemoteStatus ==
    /\ last.op = "none"
    /\ \E env \in Envs(Repo) : \E h \in {refresh_update_remote_status(app, Repo, env)} :
             /\ Becomes(h.repo)
             /\ app' = h.app
             /\ last' = [NoCall EXCEPT !.op = "refresh_update_remote_status",
                                       !.ok = h.ok, !.sync = h.sync]

NextApp == PerformPull \/ PerformPush \/ RefreshUpdateRemoteStatus

SpecApp == InitApp /\ [][NextApp]_vars

-----------------------------------------------------------------------------
(* The operation log: every sequence of additions *)

\* number of operations added in a run
MaxAdds == 12

\* the operations added: one that succeeded and one that failed
LogOps ==
    {SyncOperation("Pull", "Success", <<"Already ", "up to date">>),
     SyncOperation("Push", "Error", <<"Push failed: ", "e">>)}

\* a new AppState; the repository plays no part
InitLog ==
    /\ commits = <<>> /\ localTip = 0 /\ trackTip = 0 /\ upstreamTip = 0
    /\ hasOrigin = FALSE /\ detached = 0 /\ rebasing = FALSE
    /\ index = EmptyTree /\ worktree = EmptyTree
    /\ last = NoCall
    /\ app = AppNew
    /\ wire = <<>>

AddSyncOperation ==
    /\ Len(app.added) < MaxAdds
    /\ \E operation \in LogOps : app' = add_sync_operation(app, operation)
    /\ UNCHANGED <<repoVars, last>>

NextLog == AddSyncOperation

SpecLog == InitLog /\ [][NextLog]_vars

-----------------------------------------------------------------------------
(* Credential negotiation: every fetch and push against every server *)

\* fetch_origin where the library fetch meets server c and the git program
\* does what cli says
FetchOriginAuth ==
    /\ last.op = "none"
    /\ hasOrigin
    /\ UNCHANGED app
    /\ \E c \in AuthCases, cli \in {"cli_ok", "cli_fail", "cli_missing"} :
       \E res \in {fetch_origin(Repo, IF remote_transfer(c) = "Ok" THEN "git2_ok" ELSE cli)} :
             /\ Becomes(res.repo)
             /\ last' = [NoCall EXCEPT !.op = "fetch_origin", !.ok = res.ok,
                                       !.sync = res.sync, !.auth = c]

\* push_origin where remote.push meets server c
PushOriginAuth ==
    /\ last.op = "none"
    /\ hasOrigin
    /\ UNCHANGED app
    /\ \E c \in AuthCases :
       \E res \in {push_origin(Repo, [NoEnv EXCEPT !.push = remote_transfer(c) = "Ok"])} :
             /\ Becomes(res.repo)
             /\ last' = [NoCall EXCEPT !.op = "push_origin", !.ok = res.ok,
                                       !.sync = res.sync, !.auth = c]

NextCred == FetchOriginAuth \/ PushOriginAuth

SpecCred == InitSync /\ [][NextCred]_vars

-----------------------------------------------------------------------------
(* Remote synchronisation: the properties *)

SyncOps == {"fetch_origin", "pull_origin", "push_origin", "refresh_remote_status"}

\* the fetch of the last call succeeded
FetchSucceeded(env) == env.net \in {"git2_ok", "cli_ok"}

\* C8: every sync operation reports failure as a returned SyncOperation with
\* status Error, never as an error value; in particular push_origin returns
\* an Error SyncOperation when the remote origin is missing or unreachable.
\* The formula is that particular case: a push that cannot reach a remote
\* returns Ok with an operation of status Error.
C8_FailureIsAnOperation ==
    (last.op = "push_origin" /\ (~hasOrigin \/ ~last.env.push))
        => /\ last.ok
           /\ last.sync.kind = "Push"
           /\ last.sync.status = "Error"

\* C9: pull_origin(false), when the three-way merge of the merge base, the
\* local tip and the remote tip has conflicts, returns a Pull operation with
\* status Error whose message says that merge conflicts were detected, and
\* creates no commit: the branch and HEAD stay at the local tip.
C9_ConflictsStopTheMerge ==
    [][(/\ last'.op = "pull_origin" /\ ~last'.use_rebase
        /\ FetchSucceeded(last'.env)
        /\ localTip # 0 /\ trackTip' # 0 /\ localTip # trackTip'
        /\ merge_base(commits, localTip, trackTip') # 0
        /\ merge_trees(commits[merge_base(commits, localTip, trackTip')].tree,
                       commits[localTip].tree, commits[trackTip'].tree,
                       last'.env.clean).conflicts)
       => /\ last'.ok
          /\ last'.sync.kind = "Pull"
          /\ last'.sync.status = "Error"
          /\ Contains(last'.sync.message, "Merge conflicts detected")
          /\ commits' = commits
          /\ localTip' = localTip
          /\ detached' = detached]_vars

\* a merge pull of two histories that changed the file differently ended
C9_Witness ==
    /\ last.op = "pull_origin" /\ ~last.use_rebase
    /\ FetchSucceeded(last.env)
    /\ localTip # trackTip
    /\ Contains(last.sync.message, "Merge conflicts detected")

\* C10: pull_origin, with rebase and without, when the fetch succeeded and
\* the local tip equals the remote-tracking tip, returns a Pull operation
\* with status Success and a message containing "up to date", and neither
\* merges nor rebases: no commit is created and HEAD, the index and the
\* working tree are unchanged.
C10_UpToDateDoesNothing ==
    [][(/\ last'.op = "pull_origin"
        /\ FetchSucceeded(last'.env)
        /\ localTip # 0 /\ localTip = trackTip')
       => /\ last'.ok
          /\ last'.sync.kind = "Pull"
          /\ last'.sync.status = "Success"
          /\ Contains(last'.sync.message, "up to date")
          /\ commits' = commits
          /\ localTip' = localTip
          /\ detached' = detached
          /\ rebasing' = rebasing
          /\ index' = index
          /\ worktree' = worktree]_vars

\* a rebase pull found the fetched remote tip equal to the local tip
C10_Witness ==
    /\ last.op = "pull_origin" /\ last.use_rebase
    /\ FetchSucceeded(last.env)
    /\ localTip # 0 /\ localTip = trackTip
    /\ last.sync.status = "Success"

\* C11: pull_origin(true) replays the local-only commits onto the remote tip
\* in order; when a replay step fails the rebase is aborted, so that the
\* branch is at the old local tip with HEAD on it and no rebase is left in
\* progress, and the failure is reported as an Error SyncOperation.
C11_FailedRebaseIsAborted ==
    [][(/\ last'.op = "pull_origin" /\ last'.use_rebase
        /\ Contains(last'.sync.message, "Rebase failed: "))
       => /\ last'.ok
          /\ last'.sync.kind = "Pull"
          /\ last'.sync.status = "Error"
          /\ localTip' = localTip
          /\ detached' = detached
          /\ ~rebasing']_vars

\* C12: pull_origin runs the fetch before anything else; when the fetch
\* fails it returns a Pull SyncOperation with status Error and starts
\* neither merge nor rebase: commits, branch, HEAD, index and working tree
\* are unchanged.
C12_FailedFetchStopsPull ==
    [][(last'.op = "pull_origin" /\ ~FetchSucceeded(last'.env))
       => /\ last'.ok
          /\ last'.sync.kind = "Pull"
          /\ last'.sync.status = "Error"
          /\ UNCHANGED <<commits, localTip, detached, rebasing, index, worktree>>]_vars

\* C12 where the fetch failed by returning an Error operation (the git
\* program ran and exited non-zero): the pull is a Pull Error operation
\* whose message starts with "Pull failed during fetch: ", and the
\* repository is unchanged.
C12_FetchErrorStopsPull ==
    [][(last'.op = "pull_origin" /\ last'.env.net = "cli_fail")
       => /\ last'.ok
          /\ last'.sync.kind = "Pull"
          /\ last'.sync.status = "Error"
          /\ last'.sync.message[1] = "Pull failed during fetch: "
          /\ UNCHANGED <<commits, localTip, trackTip, upstreamTip, hasOrigin, detached,
                         rebasing, index, worktree>>]_vars

\* the merge pull_origin(false) has to make on the step from this state:
\* the fetch succeeded and the tips it left differ and share a merge base
MergeDue ==
    /\ last'.op = "pull_origin" /\ ~last'.use_rebase
    /\ FetchSucceeded(last'.env)
    /\ localTip # 0 /\ trackTip' # 0 /\ localTip # trackTip'
    /\ merge_base(commits, localTip, trackTip') # 0

\* the three-way merge of that step
DueMerge ==
    merge_trees(commits[merge_base(commits, localTip, trackTip')].tree,
                commits[localTip].tree, commits[trackTip'].tree, last'.env.clean)

\* exactly one commit is added, with the parents local tip, remote tip in
\* that order and the merged tree, and the branch is moved to it
MergeCommitted ==
    /\ Len(commits') = Len(commits) + 1
    /\ \A i \in 1..Len(commits) : commits'[i] = commits[i]
    /\ commits'[Len(commits')].parents = <<localTip, trackTip'>>
    /\ commits'[Len(commits')].tree = DueMerge.tree
    /\ localTip' = Len(commits')
    /\ detached' = detached

\* C13 as stated: pull_origin(false), whenever the tips differ and the
\* three-way merge of the trees has no conflicts, creates exactly one new
\* commit with the parents old local tip, remote tip and the merged tree,
\* and moves the branch to it; also when one tip is an ancestor of the other.
C13_CleanMergeCommits ==
    [][(MergeDue /\ ~DueMerge.conflicts) => MergeCommitted]_vars

\* C13 amended: the same, when in addition repo.signature() yields a
\* committer identity; the pull then returns Pull Success.
C13_CleanMergeCommitsWhenSigned ==
    [][(MergeDue /\ ~DueMerge.conflicts /\ last'.env.signature)
       => /\ MergeCommitted
          /\ last'.ok /\ last'.sync.kind = "Pull" /\ last'.sync.status = "Success"]_vars

\* a merge pull made a merge commit although the local tip was an ancestor
\* of the remote tip
C13_Witness ==
    /\ last.op = "pull_origin" /\ ~last.use_rebase
    /\ last.sync.status = "Success"
    /\ localTip = Len(commits) /\ Len(commits[localTip].parents) = 2
    /\ commits[localTip].parents[2] = trackTip
    /\ commits[localTip].parents[1] \in Ancestors(commits, trackTip)

RECURSIVE Closure(_, _)
\* the commits reached from the set S by following parent links at most n
\* times
Closure(S, n) ==
    IF n = 0 THEN S
    ELSE Closure(S \cup {p \in 1..Len(commits) :
                            \E c \in S : \E i \in 1..Len(commits[c].parents) :
                                commits[c].parents[i] = p},
                 n - 1)

\* the commits reachable from a ref (none from a ref that does not exist)
Reachable(tip) == IF tip = 0 THEN {} ELSE Closure({tip}, Len(commits))

\* C14: get_ahead_behind_counts returns ahead = the number of commits
\* reachable from HEAD and not from origin/<branch>, behind = the number
\* reachable from that ref and not from HEAD; identical histories give
\* (0,0), one extra local-only commit gives (1,0); without a
\* remote-tracking ref it returns (all commits reachable from HEAD, 0).
C14_AheadBehindCounts ==
    (last.op = "get_remote_status" /\ last.ok)
        => /\ last.remote.ahead
                = Cardinality(Reachable(HeadCommit) \ Reachable(trackTip))
           /\ last.remote.behind
                = Cardinality(Reachable(trackTip) \ Reachable(HeadCommit))
           /\ (trackTip = HeadCommit) => last.remote = [ahead |-> 0, behind |-> 0]
           /\ (trackTip # 0 /\ commits[HeadCommit].parents = <<trackTip>>)
                => last.remote = [ahead |-> 1, behind |-> 0]
           /\ (trackTip = 0)
                => last.remote = [ahead |-> Cardinality(Reachable(HeadCommit)),
                                  behind |-> 0]

\* the counts were read where both sides have a commit of their own
C14_Witness ==
    /\ last.op = "get_remote_status" /\ last.ok
    /\ last.remote.ahead > 0 /\ last.remote.behind > 0

-----------------------------------------------------------------------------
(* The operation log: the properties *)

\* C15: after any sequence of additions update_recent_operations holds at
\* most 10 entries and is exactly the (up to) 10 most recently added
\* operations, newest first: the entry at position i is the i-th most
\* recently added operation, unchanged.
C15_LogIsLastTenNewestFirst ==
    LET log == app.update_recent_operations
        n == Len(app.added)
    IN  /\ Len(log) <= 10
        /\ Len(log) = IF n < 10 THEN n ELSE 10
        /\ \A i \in 1..Len(log) : log[i] = app.added[n + 1 - i]

\* an addition to a full log dropped the oldest of two different entries
C15_Witness ==
    /\ Len(app.added) = 11
    /\ app.added[1] # app.added[2]
    /\ Len(app.update_recent_operations) = 10
    /\ app.update_recent_operations[10] = app.added[2]

\* the kind of operation each handler logs
KindOf(op) ==
    IF op = "perform_pull" THEN "Pull"
    ELSE IF op = "perform_push" THEN "Push" ELSE "Refresh"

\* C16: every call of perform_pull, perform_push or
\* refresh_update_remote_status adds exactly one SyncOperation to the
\* operation log, at its front, whether the git function returned an
\* operation or an error value; a failed attempt is logged with status
\* Error, and the fetch inside a pull or a refresh adds no entry of its own.
C16_OneEntryPerCall ==
    [][last'.op \in {"perform_pull", "perform_push", "refresh_update_remote_status"}
       => /\ Len(app'.added) = Len(app.added) + 1
          /\ app'.update_recent_operations[1] = app'.added[Len(app'.added)]
          /\ Len(app'.update_recent_operations)
                = IF Len(app.update_recent_operations) < 10
                  THEN Len(app.update_recent_operations) + 1 ELSE 10
          /\ \A i \in 2..Len(app'.update_recent_operations) :
                app'.update_recent_operations[i] = app.update_recent_operations[i - 1]
          /\ app'.update_recent_operations[1].kind = KindOf(last'.op)
          /\ last'.ok => app'.update_recent_operations[1] = last'.sync
          /\ (~last'.ok \/ last'.sync.status = "Error")
                => app'.update_recent_operations[1].status = "Error"]_vars

\* a pull whose git call returned an error value was logged on a full log
C16_Witness ==
    /\ last.op = "perform_pull" /\ ~last.ok
    /\ Len(app.added) = 11
    /\ app.update_recent_operations[1]
          = SyncOperation("Pull", "Error", <<"Pull failed: ", "e">>)

-----------------------------------------------------------------------------
(* Credentials and transports: the properties *)

\* the server asked for credentials and the callback had none to return
NoCredential(c) == c.asked /\ ~credentials(c.allowed_types, c.agent, c.helper).ok

\* C17: credential negotiation for fetch, and identically for push, tries
\* the SSH key from the agent first and the HTTPS credential helper second
\* and returns the first that succeeds; when neither succeeds the fetch
\* fails with an authentication error and goes on to no other way of
\* fetching.
C17_NoCredentialEndsTheFetch ==
    (last.op \in {"fetch_origin", "push_origin"} /\ NoCredential(last.auth))
        => /\ last.ok => last.sync.status = "Error"
           /\ \A i \in 1..Len(wire) : wire[i] # "git fetch origin"

\* C17, the order alone: the callback tries the agent before the helper, the
\* helper only when the agent gave nothing, and returns the first success.
C17_AgentThenHelper ==
    \A types \in SUBSET CredentialTypes, agent \in BOOLEAN, helper \in BOOLEAN :
        LET c == credentials(types, agent, helper)
        IN  /\ c.tried \in {<<>>, <<"ssh_key_from_agent">>, <<"credential_helper">>,
                            <<"ssh_key_from_agent", "credential_helper">>}
            /\ c.ok => c.cred = c.tried[Len(c.tried)]
            /\ ("SSH_KEY" \in types /\ agent) => c.cred = "ssh_key_from_agent"

\* the transports used on the last step
Delta == SubSeq(wire', Len(wire) + 1, Len(wire'))

\* C18: fetch_origin makes at most two transport attempts per call: the
\* library fetch and, only when that did not succeed, one `git fetch
\* origin`; pull_origin and refresh_remote_status fetch exactly once, so
\* the same holds for them; push_origin makes one push attempt, without
\* fallback or retry.
C18_TransportAttempts ==
    [][/\ last'.op \in {"fetch_origin", "pull_origin", "refresh_remote_status"}
          => /\ Delta \in {<<>>, <<"remote.fetch">>, <<"git fetch origin">>,
                           <<"remote.fetch", "git fetch origin">>}
             /\ hasOrigin => Delta[1] = "remote.fetch"
             /\ last'.env.net = "git2_ok" => Delta = <<"remote.fetch">>
             /\ last'.env.net \in {"cli_ok", "cli_fail"}
                   => Delta[Len(Delta)] = "git fetch origin"
       /\ last'.op = "push_origin"
          => Delta = IF hasOrigin /\ localTip # 0 THEN <<"remote.push">> ELSE <<>>]_vars

\* a pull went through both transports
C18_Witness ==
    /\ last.op = "pull_origin"
    /\ wire = <<"remote.fetch", "git fetch origin">>
    /\ last.sync.status = "Success"

-----------------------------------------------------------------------------
(* The two status backends: the properties *)

\* C19: get_git_status uses the git-command fallback exactly when the
\* primary gix computation fails and returns the primary result unchanged
\* otherwise; when the fallback's command cannot be run or exits non-zero
\* it returns an error, not an empty or partial list.
C19_FallbackOnlyOnFailure ==
    last.op = "get_git_status"
        => /\ last.backend = "fallback" <=> last.fault # "none"
           /\ last.fault = "none" => last.ok /\ last.files \in PrimaryLists
           /\ last.fault = "primary"
                => last.ok /\ last.files = get_git_status_fallback(HeadTree, index, worktree)
           /\ last.fault = "both" => ~last.ok

\* both backends failed on a repository that has something to report
C19_Witness ==
    /\ last.op = "get_git_status" /\ last.fault = "both" /\ ~last.ok
    /\ get_git_status_fallback(HeadTree, index, worktree) # <<>>

\* C20: on every repository state the git-command fallback returns the
\* same set of (path, kind, staged) records as the primary gix backend, up
\* to order; this includes paths with staged and unstaged changes, paths
\* added to the index and then edited, and tracked files deleted from the
\* working tree.
C20_BackendsAgree ==
    (last.op = "get_git_status" /\ last.ok)
        => \A files \in PrimaryLists :
              RecordSet(files) = RecordSet(get_git_status_fallback(HeadTree, index, worktree))

-----------------------------------------------------------------------------
(* Staging everything: the properties *)

\* the unstaged part of a path's git2 status
WtFlags(head, idx, wt, p) ==
    StatusFlags(head, idx, wt, p)
        \cap {"WT_NEW", "WT_MODIFIED", "WT_DELETED", "WT_TYPECHANGE"}

\* C21: stage_all_files, for every path of the status snapshot that is new,
\* modified or deleted in the working tree, removes the path from the index
\* when its file is deleted and otherwise copies the working-tree content
\* into the index; after a successful call no path of that snapshot has an
\* unstaged change left.
C21_StageAllLeavesNothingUnstaged ==
    [][(last'.op = "stage_all_files" /\ last'.ok)
        => \A i \in 1..Len(last'.paths) :
             LET p == last'.paths[i]
                 st == StatusFlags(HeadTree, index, worktree, p)
             IN  /\ "WT_DELETED" \in st => index'[p] = NoEntry
                 /\ st \cap {"WT_NEW", "WT_MODIFIED"} # {} => index'[p] = worktree[p]
                 /\ WtFlags(HeadTree, index', worktree, p) = {}]_vars

\* C21 for the paths the loop acts on: each path of the snapshot that is
\* new, modified or deleted in the working tree is removed from the index
\* when its file is gone and takes the working-tree content otherwise, and
\* has no unstaged change left.
C21_StagedWhatItNamed ==
    [][(last'.op = "stage_all_files" /\ last'.ok)
        => \A i \in 1..Len(last'.paths) :
             LET p == last'.paths[i]
                 st == StatusFlags(HeadTree, index, worktree, p)
             IN  st \cap {"WT_NEW", "WT_MODIFIED", "WT_DELETED"} # {}
                   => /\ index'[p] = (IF "WT_DELETED" \in st THEN NoEntry ELSE worktree[p])
                      /\ WtFlags(HeadTree, index', worktree, p) = {}]_vars

\* the calls that stage or unstage
StagingOps ==
    {"stage_file", "stage_files", "stage_all_files",
     "unstage_file", "unstage_files", "unstage_all_files"}

\* C22: stage_file, stage_files, stage_all_files, unstage_file and
\* unstage_all_files change only the index: the working-tree files, the HEAD
\* commit and every ref are the same after the call as before it, on success
\* and on failure.
C22_StagingWritesIndexOnly ==
    [][last'.op \in StagingOps
        => /\ worktree' = worktree
           /\ HeadCommit' = HeadCommit
           /\ HeadTree' = HeadTree
           /\ UNCHANGED <<commits, localTip, trackTip, detached>>]_vars

\* a staged edit was unstaged while the file on disk differs from HEAD's
\* version, and the file is as it was
C22_Witness ==
    /\ last.op = "unstage_file" /\ last.ok
    /\ "INDEX_MODIFIED" \in last.flags
    /\ index[last.path] = HeadTree[last.path]
    /\ worktree[last.path] # HeadTree[last.path]
    /\ worktree[last.path] # NoEntry

-----------------------------------------------------------------------------
(* Refreshing the remote status: the properties *)

-----------------------------------------------------------------------------
(* The staged pass of the primary backend: the properties *)

\* the kinds of the staged pass's records for path p, one per record
StagedKinds(p) ==
    [i \in 1..Len(SelectSeq(last.staged_files, LAMBDA f : f.path = p)) |->
        SelectSeq(last.staged_files, LAMBDA f : f.path = p)[i].status]

-----------------------------------------------------------------------------
(* The index and the working tree after a merge pull: the properties *)

\* C25: after pull_origin(false) returns Success by creating a merge commit,
\* starting from a clean state (index and working tree equal to the old
\* HEAD tree), the index and the working tree equal the tree of the new
\* HEAD commit, so a following get_git_status returns an empty list.
C25_MergeLeavesCleanTree ==
    [][(/\ last'.op = "pull_origin" /\ ~last'.use_rebase
        /\ last'.ok /\ last'.sync.status = "Success"
        /\ Len(commits') = Len(commits) + 1
        /\ index = HeadTree /\ worktree = HeadTree)
       => /\ index' = HeadTree'
          /\ worktree' = HeadTree'
          /\ \A files \in StatusLists' : files = <<>>]_vars

-----------------------------------------------------------------------------
(* Toggling a row of the status list: the properties *)

\* some list in the set has a record for path p with the given staged flag
Reported(lists, p, staged) ==
    \E files \in lists : \E i \in 1..Len(files) :
        files[i].path = p /\ files[i].staged = staged

\* C26: whenever unstage_file(p) returns Ok for a path p that get_git_status
\* reported with staged=true, p is no longer staged: the index entry for p
\* equals HEAD's entry (or is absent when HEAD has no p) and a re-query
\* reports no staged=true record for p; for every staged state of p,
\* a staged type change or rename included.
C26_UnstageClearsStaged ==
    [][(/\ last'.op = "unstage_file" /\ last'.ok
        /\ Reported(StatusLists, last'.path, TRUE))
       => /\ index'[last'.path] = HeadTree[last'.path]
          /\ ~Reported(StatusLists', last'.path, TRUE)]_vars

\* C26 with HEAD readable and the reports of the primary backend: the
\* failure that is left is the staged type change.
C26_UnstageClearsStagedHeadRead ==
    [][(/\ last'.op = "unstage_file" /\ last'.ok /\ last'.fault = "none"
        /\ Reported(PrimaryLists, last'.path, TRUE))
       => /\ index'[last'.path] = HeadTree[last'.path]
          /\ ~Reported(PrimaryLists', last'.path, TRUE)]_vars

\* C26 apart from type changes: with HEAD readable, a path staged as new,
\* modified or deleted is unstaged by an Ok call, and the primary backend
\* no longer reports it as staged.
C26_UnstageClearsNewModifiedDeleted ==
    [][(/\ last'.op = "unstage_file" /\ last'.ok /\ last'.fault = "none"
        /\ Reported(PrimaryLists, last'.path, TRUE)
        /\ "INDEX_TYPECHANGE" \notin last'.flags)
       => /\ index'[last'.path] = HeadTree[last'.path]
          /\ ~Reported(PrimaryLists', last'.path, TRUE)]_vars

\* every list in the set has a record for path p with staged=true
ReportedStagedByAll(lists, p) ==
    \A files \in lists : \E i \in 1..Len(files) :
        files[i].path = p /\ files[i].staged

\* C27: for every record that get_git_status returns with staged=false (an
\* Untracked file, a modified tracked file, or a tracked file deleted from
\* the working tree), stage_file(record.path) succeeds and a re-query
\* reports that path with staged=true.  (Failures of opening the repository
\* or writing the index are set aside.)
C27_StageMakesStaged ==
    [][(/\ last'.op = "stage_file" /\ last'.fault = "none"
        /\ Reported(StatusLists, last'.path, FALSE))
       => /\ last'.ok
          /\ ReportedStagedByAll(StatusLists', last'.path)]_vars

\* C27 for the rows whose file exists: stage_file succeeds and the index
\* entry becomes the working-tree file, so no unstaged change is left.
C27_StageExistingFile ==
    [][(/\ last'.op = "stage_file" /\ last'.fault = "none"
        /\ Reported(StatusLists, last'.path, FALSE)
        /\ worktree[last'.path] # NoEntry)
       => /\ last'.ok
          /\ index'[last'.path] = worktree[last'.path]
          /\ ~Reported(PrimaryLists', last'.path, FALSE)]_vars

-----------------------------------------------------------------------------
(* Kind and staged flag of a record: the properties *)

\* kind and staged agree in every record of the list
KindMatchesStaged(files) ==
    \A i \in 1..Len(files) :
        /\ files[i].status = "Untracked" => ~files[i].staged
        /\ files[i].status \in {"Added", "Deleted"} => files[i].staged

\* C28: in every list returned by get_git_status, kind and staged are
\* consistent: a record with kind Untracked has staged=false, and a record
\* with kind Added or Deleted has staged=true; after the merge of the
\* unstaged and staged passes, for every repository state.
C28_KindAndStagedConsistent ==
    (last.op = "get_git_status" /\ last.ok) => KindMatchesStaged(last.files)

\* C28 before the merge: each pass of the primary backend on its own is
\* consistent.
C28_PassesConsistent ==
    (last.op = "get_git_status" /\ last.backend = "gix")
        => /\ KindMatchesStaged(last.unstaged_files)
           /\ KindMatchesStaged(last.staged_files)

-----------------------------------------------------------------------------
(* The fallback parser: the properties *)

\* the fields of git's output that are status entries: two status-code
\* characters, a space and a path
StatusEntries ==
    SelectSeq(GitStatusPorcelain(HeadTree, index, worktree),
              LAMBDA line : Len(line) > 3 /\ line[3] = " ")

\* C29: the fallback parser emits a record only for NUL-delimited entries of
\* the form <two status-code characters><space><path>, with the record's
\* path equal to that entry's path: entries shorter than 3 bytes are
\* skipped, an entry whose third character is not a space (the source-path
\* field that follows a rename entry) produces no record, and a rename
\* entry yields Renamed with an empty `from`.  The records are, in order,
\* those of the status entries.
C29_FallbackParsesEntriesOnly ==
    (last.op = "get_git_status" /\ last.ok /\ last.backend = "fallback")
        => /\ Len(last.files) = Len(StatusEntries)
           /\ \A i \in 1..Len(last.files) :
                /\ i <= Len(StatusEntries)
                     => last.files[i].path
                            = SubSeq(StatusEntries[i], 4, Len(StatusEntries[i]))
                /\ (i <= Len(StatusEntries) /\ StatusEntries[i][1] = "R")
                     => last.files[i].status = "Renamed" /\ last.files[i].from = <<>>

\* C29 without the third character: fields shorter than 3 bytes yield no
\* record, every record's path is the rest of a field from its fourth byte
\* on, and every Renamed record has an empty `from`.
C29_FallbackSlicesFields ==
    (last.op = "get_git_status" /\ last.ok /\ last.backend = "fallback")
        => LET lines == GitStatusPorcelain(HeadTree, index, worktree)
               long == SelectSeq(lines, LAMBDA line : Len(line) >= 3)
           IN  /\ Len(last.files) <= Len(long)
               /\ \A i \in 1..Len(last.files) :
                    /\ \E k \in 1..Len(long) :
                          last.files[i].path = SubSeq(long[k], 4, Len(long[k]))
                    /\ last.files[i].status = "Renamed" => last.files[i].from = <<>>

-----------------------------------------------------------------------------
(* The tabs: start_tui's loop, one key press and the draw that follows it *)

\* TAB_TITLES.len()
TabCount == 5

\* get_git_status().unwrap_or_default(): a list of either backend, or the
\* empty list when both fail
StatusResults(head, tip, idx, wt) ==
    {get_git_status_pure_gix(head, tip, idx, wt, o) : o \in PathOrders}
    \cup {get_git_status_fallback(head, idx, wt)}
    \cup {<<>>}

load_save_changes_git_status(a, files) ==
    IF ~a.save_changes_git_status_loaded
    THEN [a EXCEPT !.save_changes_git_status = files,
                   !.save_changes_git_status_loaded = TRUE]
    ELSE a

refresh_save_changes_git_status(a, files) ==
    [a EXCEPT !.save_changes_git_status = files, !.save_changes_git_status_loaded = TRUE]

invalidate_save_changes_git_status(a) == [a EXCEPT !.save_changes_git_status_loaded = FALSE]

load_status_git_status(a, files) ==
    IF ~a.status_git_status_loaded
    THEN [a EXCEPT !.status_git_status = files, !.status_git_status_loaded = TRUE]
    ELSE a

\* defined by AppState; nothing calls it
invalidate_status_git_status(a) == [a EXCEPT !.status_git_status_loaded = FALSE]

hide_error(a) == [a EXCEPT !.show_error_popup = FALSE, !.error_popup_title = ""]

\* load_update_tab: the remote status is read once
load_update_tab(a, r) ==
    IF a.update_remote_status = NoRemoteStatus THEN ReloadRemoteStatus(a, r) ELSE a

\* terminal.draw: the tab module of the active tab, with the result a
\* status query made now would have (git is enabled)
Draw(a, files) ==
    CASE a.active_tab = 1 -> load_status_git_status(a, files)
      [] a.active_tab = 2 -> load_save_changes_git_status(a, files)
      [] OTHER -> a

\* the Tab and BackTab arms: what is done on the way to tab `next_tab`
SwitchTab(a, next_tab, r) ==
    LET left == IF a.active_tab = 2 /\ next_tab # 2
                THEN invalidate_save_changes_git_status(a) ELSE a
        entered == IF next_tab = 3 /\ a.active_tab # 3
                   THEN load_update_tab(left, r) ELSE left
    IN  [entered EXCEPT !.active_tab = next_tab]

\* the index toggle_file_staging leaves for the selected row; the Result of
\* stage_file / unstage_file is dropped
toggle_file_staging(a, head, tip, idx, wt, selected_idx) ==
    LET row == a.save_changes_git_status[selected_idx]
    IN  IF row.staged
        THEN unstage_file(head, tip, idx, wt, row.path, "none").index
        ELSE stage_file(idx, wt, row.path, "none").index

\* rows of the cached list with staged=true
StagedCount(a) ==
    Cardinality({i \in 1..Len(a.save_changes_git_status) :
                    a.save_changes_git_status[i].staged})

\* histories of one file, PathA
TabTrees == {t \in Trees : t[PathData] = NoEntry}

\* a repository with nothing staged, before the first key press (the first
\* draw shows the Overview tab, which loads no status)
InitTabs ==
    /\ \/ commits = <<>> /\ localTip = 0
       \/ \E t \in TabTrees : commits = <<[parents |-> <<>>, tree |-> t]>> /\ localTip = 1
    /\ trackTip = 0
    /\ upstreamTip = 0
    /\ hasOrigin \in BOOLEAN
    /\ detached = 0
    /\ rebasing = FALSE
    /\ index = HeadTree
    /\ worktree \in TabTrees
    /\ Canonical(<<HeadTree[PathA].id, worktree[PathA].id>>)
    /\ last = NoCall
    /\ app = AppNew
    /\ wire = <<>>

KeyTab ==
    /\ ~app.show_error_popup
    /\ \E files \in StatusResults(HeadTree, HeadCommit, index, worktree) :
         app' = Draw(SwitchTab(app, (app.active_tab + 1) % TabCount, Repo), files)
    /\ UNCHANGED <<repoVars, last>>

KeyBackTab ==
    /\ ~app.show_error_popup
    /\ \E files \in StatusResults(HeadTree, HeadCommit, index, worktree) :
         app' = Draw(SwitchTab(app, (app.active_tab + TabCount - 1) % TabCount, Repo), files)
    /\ UNCHANGED <<repoVars, last>>

\* Space on the file list of the Save Changes tab
KeySpace ==
    /\ ~app.show_error_popup
    /\ app.active_tab = 2
    /\ \E selected_idx \in 1..Len(app.save_changes_git_status) :
         /\ index' = toggle_file_staging(app, HeadTree, HeadCommit, index, worktree,
                                         selected_idx)
         /\ \E files \in StatusResults(HeadTree, HeadCommit, index', worktree) :
              app' = Draw(refresh_save_changes_git_status(app, files), files)
    /\ UNCHANGED <<notIndexVars, last>>

\* Enter on the file list of the Save Changes tab: commit_staged_files.
\* `git commit` fails when the index holds HEAD's tree, and can fail for
\* reasons of its own (no identity, a hook).
KeyEnter ==
    /\ ~app.show_error_popup
    /\ app.active_tab = 2
    /\ Len(commits) < MaxCommits
    /\ \E message_empty \in BOOLEAN, committed \in BOOLEAN :
         IF StagedCount(app) > 0 /\ ~message_empty /\ committed /\ index # HeadTree
         THEN /\ commits' = Append(commits,
                               [parents |-> IF localTip = 0 THEN <<>> ELSE <<localTip>>,
                                tree |-> index])
              /\ localTip' = Len(commits) + 1
              /\ \E files \in StatusResults(index, Len(commits) + 1, index, worktree) :
                   app' = Draw(refresh_save_changes_git_status(app, files), files)
         ELSE /\ app' = show_error(app, "Commit Failed")
              /\ UNCHANGED <<commits, localTip>>
    /\ UNCHANGED <<trackTip, upstreamTip, hasOrigin, detached, rebasing, index, worktree,
                   wire, last>>

\* Enter or Esc while the error popup is shown
KeyClosePopup ==
    /\ app.show_error_popup
    /\ app' = hide_error(app)
    /\ UNCHANGED <<repoVars, last>>

NextTabs == KeyTab \/ KeyBackTab \/ KeySpace \/ KeyEnter \/ KeyClosePopup

SpecTabs == InitTabs /\ [][NextTabs]_vars

-----------------------------------------------------------------------------
(* The tabs: the properties *)

\* C30: leaving the Files tab marks the files-tab status cache as needing
\* refresh (status_git_status_loaded becomes false), so after any sequence
\* of stage, unstage or commit actions done on another tab, the next
\* activation of the Files tab recomputes the status instead of showing the
\* list cached before those actions: the list drawn is one a status query
\* made at that moment returns.
C30_FilesTabRecomputes ==
    [][/\ (app.active_tab = 1 /\ app'.active_tab # 1)
            => ~app'.status_git_status_loaded
       /\ (app.active_tab # 1 /\ app'.active_tab = 1)
            => app'.status_git_status
                  \in StatusResults(HeadTree', HeadCommit', index', worktree')]_vars

\* C30 for the Save Changes tab, whose cache the loop does invalidate:
\* leaving the tab clears save_changes_git_status_loaded, and the list drawn
\* when the tab is entered is one a status query made then returns.
C30_SaveChangesTabRecomputes ==
    [][/\ (app.active_tab = 2 /\ app'.active_tab # 2)
            => ~app'.save_changes_git_status_loaded
       /\ (app.active_tab # 2 /\ app'.active_tab = 2)
            => app'.save_changes_git_status
                  \in StatusResults(HeadTree', HeadCommit', index', worktree')]_vars

=============================================================================
